---- MODULE Spec2Model ----
(***************************************************************************)
(* Model of the optical-density threshold kernel                           *)
(* (sedeen::image::tile::ODThresholdKernel, src/ODThresholdKernel.cpp).    *)
(*                                                                         *)
(* doProcessData is in the middle of a rewrite in the source: its pixel    *)
(* loop (lines 126-187) is live but has holes (the marker on line 143, the *)
(* undeclared nextIndex on line 156, no retention step), and the previous  *)
(* version of the same loop is kept as a comment (lines 192-241).  The     *)
(* model takes every live statement as written and fills the holes with    *)
(* the statements of the commented-out loop that have no live counterpart, *)
(* at the place they have there relative to the accumulation loop:         *)
(*   - the element index of a (pixel, channel) pair, lines 197-204;        *)
(*   - the division after the accumulation, line 221;                      *)
(*   - the behavior switch and its writes, lines 223-240.                  *)
(* Where both versions have a statement the live one is used (the channel  *)
(* mapping of lines 104-115 and 151, the range test of line 152, the       *)
(* RGBA output buffer of line 98, the alpha write of line 186).            *)
(*                                                                         *)
(* assert(...) ends the process in a build without NDEBUG and is no        *)
(* statement at all in a build with NDEBUG; the build is chosen in Init.   *)
(*                                                                         *)
(* Optical densities are fixed-point integers, in units of 0.1 OD; the     *)
(* quotient w_odRunningTotal / weightDenominator is kept as the pair and   *)
(* compared by cross-multiplication, so the comparisons are exact.         *)
(***************************************************************************)
EXTENDS Integers, Sequences, FiniteSets, TLC

(* ---------------------------------------------------------------- bounds *)
MaxPixels == 2
MaxUpdates == 2

(* ------------------------------------------------------ program constants *)
\* enum Behavior, ODThresholdKernel.h lines 54-61
RETAIN_LOWER_OD == 0
RETAIN_HIGHER_OD == 1
NO_ACTION == 2
Behaviors == {RETAIN_LOWER_OD, RETAIN_HIGHER_OD, NO_ACTION}

\* OutputColor(ColorModel::RGBA, ChannelType::UInt8), line 48
numOutputChannels == 4
outputScaleMax == 255

PixelOrders == {"Interleaved", "Planar"}

(* ------------------------------------------------------------ input sets *)
Intensities == {64, 255}
Thresholds == {0, 2}
WeightTriples == {<<1, 1, 1>>, <<0, 0, 0>>, <<1, -1, 0>>, <<2, 1, 0>>}

\* <<color model, declared channel count>> of the sources handed to the kernel
SourceKinds ==
    {<<"Grayscale", 1>>, <<"RGB", 1>>, <<"RGB", 2>>, <<"RGB", 3>>,
     <<"BGR", 3>>, <<"RGBA", 4>>}

Sizes == {s \in (1..MaxPixels) \X (1..MaxPixels) : s[1] * s[2] <= MaxPixels}

\* channel of the element at offset i of an image of nch channels, np pixels
channelAt(order, i, nch, np) ==
    IF order = "Interleaved" THEN i % nch ELSE i \div np

\* RawImage: size, color space, pixel order and the elements by linear offset.
\* The alpha channel of an RGBA source is opaque (tiles of a slide image).
Sources ==
    UNION {{img \in [model : {k[1]}, nch : {k[2]}, order : PixelOrders,
                     width : {s[1]}, height : {s[2]},
                     data : [0..(s[1] * s[2] * k[2] - 1) -> Intensities]] :
               \A i \in DOMAIN img.data :
                   channelAt(img.order, i, img.nch, img.width * img.height) = 3
                       => img.data[i] = 255}
           : k \in SourceKinds, s \in Sizes}

NoImage == [model |-> "none", nch |-> 0, order |-> "none",
            width |-> 0, height |-> 0, data |-> <<>>]
NoFault == "none"

VARIABLES
    m_odThreshVal,      \* kernel configuration
    m_behavior,
    m_weightVals,
    updates,            \* number of update() notifications so far
    lastCall,           \* the last setter called and its argument
    ndebug,             \* TRUE when the build defines NDEBUG
    pc,                 \* "idle", "returned" or "aborted"
    source,             \* the argument of the last doProcessData
    buffer,             \* its output buffer
    translate,          \* its translateSourceToOutputChannels
    denominator,        \* its weightDenominator
    odTotals,           \* w_odRunningTotal of each pixel processed, in order
    retained,           \* the pixels whose retention branch was taken
    reads,              \* the source offsets read, in order
    fault,              \* the message of the assertion that failed
    todo,               \* the positions a partitioned pixel loop has yet to do
    params,             \* the plugin's bound parameters, by member name
    changed,            \* the members whose isChanged() is true
    m_ODThreshold_factory,  \* Null, or the cached factory of the plugin
    runs,               \* the number of calls of run() so far
    lastRun             \* what the last call of run() did

vars == <<m_odThreshVal, m_behavior, m_weightVals, updates, lastCall, ndebug,
          pc, source, buffer, translate, denominator, odTotals, retained,
          reads, fault, todo, params, changed, m_ODThreshold_factory, runs,
          lastRun>>

config == <<m_odThreshVal, m_behavior, m_weightVals>>
callVars == <<pc, source, buffer, translate, denominator, odTotals, retained,
              reads, fault>>
\* what neither the kernel's setters nor its sequential doProcessData touch
extraVars == <<todo, params, changed, m_ODThreshold_factory, runs, lastRun>>
pluginVars == <<params, changed, m_ODThreshold_factory, runs, lastRun>>

(* ------------------------------------------------------- RawImage helpers *)
channels(img) == img.nch
count(img) == img.width * img.height * img.nch

\* offset of channel ch of pixel px, lines 197-204:
\*   Interleaved  RGB RGB RGB ...    px*numChannels + ch
\*   Planar       RRR... GGG... BBB...  ch*numPixels + px
elementIndex(pixelOrder, px, ch, numChannels, numPixels) ==
    IF pixelOrder = "Interleaved"
    THEN px * numChannels + ch
    ELSE ch * numPixels + px

\* buffer->setValue(i, v)
setValueAt(img, i, v) == [img EXCEPT !.data[i] = v]

\* buffer->setValue(x, y, c, v)
setValue(img, x, y, c, v) ==
    setValueAt(img,
               elementIndex(img.order, y * img.width + x, c, img.nch,
                            img.width * img.height),
               v)

\* source[i]: an element of the source, or whatever lies past its end
readAt(src, g, i) == IF i < count(src) THEN src.data[i] ELSE g[i]

\* converter->LookupRGBtoOD(intensity), in units of 0.1 OD
LookupRGBtoOD(i) ==
    IF i >= 255 THEN 0
    ELSE IF i >= 128 THEN 3
    ELSE IF i >= 64 THEN 6
    ELSE 24

(* ---------------------------------------------------------- doProcessData *)
\* newBuffer with the source's color space in place of doGetColorSpace()
newBuffer_sourceColorSpace(src) ==
    [model |-> src.model, nch |-> src.nch, order |-> src.order,
     width |-> src.width, height |-> src.height,
     data |-> [i \in 0..(src.width * src.height * src.nch - 1) |-> 0]]

\* lines 97-99: the output buffer, RGBA, of the source's size and pixel order,
\* filled with 0
newBuffer(src) ==
    [model |-> "RGBA", nch |-> numOutputChannels, order |-> src.order,
     width |-> src.width, height |-> src.height,
     data |-> [i \in 0..(src.width * src.height * numOutputChannels - 1) |-> 0]]

\* translateSourceToOutputChannels without the BGR branch
translate_noReversal(sourceColorModel, numSourceChannels) ==
    IF sourceColorModel = "Grayscale" \/ numSourceChannels = 1
    THEN <<0, 0, 0>>
    ELSE <<0, 1, 2>>

\* lines 106-115
translateSourceToOutputChannels(sourceColorModel, numSourceChannels) ==
    IF sourceColorModel = "Grayscale" \/ numSourceChannels = 1
    THEN <<0, 0, 0>>
    ELSE IF sourceColorModel = "BGR"
    THEN <<2, 1, 0>>
    ELSE <<0, 1, 2>>

\* lines 121-122
weightSum(w) == w[1] + w[2] + w[3]
\* weightDenominator without the fallback to 1.0
weightDenominator_noFallback(w) == weightSum(w)
weightDenominator(w) == IF weightSum(w) = 0 THEN 1 ELSE weightSum(w)

\* odAtOrBelow with < in place of <=
odAtOrBelow_strict(total, den, thr) ==
    IF den > 0 THEN total < thr * den
    ELSE IF den < 0 THEN total > thr * den
    ELSE total < 0

\* line 225: w_odVal <= m_odThreshVal, where w_odVal = total / den (line 221).
\* A zero den gives the IEEE quotients: -inf, NaN or +inf.
odAtOrBelow(total, den, thr) ==
    IF den > 0 THEN total <= thr * den
    ELSE IF den < 0 THEN total >= thr * den
    ELSE total < 0

\* line 232: w_odVal >= m_odThreshVal
odAtOrAbove(total, den, thr) ==
    IF den > 0 THEN total >= thr * den
    ELSE IF den < 0 THEN total <= thr * den
    ELSE total > 0

\* lines 223-240: does the switch take a branch that copies the pixel
retains(behavior, total, den, thr) ==
    IF behavior = RETAIN_LOWER_OD THEN odAtOrBelow(total, den, thr)
    ELSE IF behavior = RETAIN_HIGHER_OD THEN odAtOrAbove(total, den, thr)
    ELSE FALSE

\* line 239: the default branch of the switch asserts
behaviorAsserts(behavior) ==
    behavior # RETAIN_LOWER_OD /\ behavior # RETAIN_HIGHER_OD

\* lines 149-157: the loop over the three contributing channels of pixel px.
\* acc = [total, indices, fault]; g gives the values past the source's end.
RECURSIVE accumulate(_, _, _, _, _, _, _, _)
accumulate(src, w, nd, g, tr, px, ch, acc) ==
    IF ch = 3 \/ acc.fault # NoFault THEN acc
    ELSE LET sourceChannelNum == tr[ch + 1]
             nextIndex == elementIndex(src.order, px, sourceChannelNum,
                                       channels(src), src.width * src.height)
         IN  IF sourceChannelNum >= channels(src) /\ ~nd
             THEN [acc EXCEPT !.fault = "Out of range index value"]
             ELSE accumulate(src, w, nd, g, tr, px, ch + 1,
                    [acc EXCEPT
                       !.total = @ + w[ch + 1] * LookupRGBtoOD(readAt(src, g, nextIndex)),
                       !.indices = Append(@, nextIndex)])

\* lines 226-228 and 233-235: buffer->setValue(*ni, source[*ni]) for each index
RECURSIVE copyIndices(_, _, _, _, _)
copyIndices(buf, src, g, indices, n) ==
    IF n > Len(indices) THEN buf
    ELSE copyIndices(setValueAt(buf, indices[n], readAt(src, g, indices[n])),
                     src, g, indices, n + 1)

\* One iteration of the pixel loop, lines 128-187, for position j.
\* st = [buffer, odTotals, retained, reads, fault]
processPixel(src, thr, behavior, w, nd, g, st, j) ==
    LET x == j % src.width
        y == j \div src.width
        tr == translateSourceToOutputChannels(src.model, channels(src))
        den == weightDenominator(w)
        acc == accumulate(src, w, nd, g, tr, j, 0,
                          [total |-> 0, indices |-> <<>>, fault |-> NoFault])
        keep == retains(behavior, acc.total, den, thr)
        copied == IF keep THEN copyIndices(st.buffer, src, g, acc.indices, 1)
                  ELSE st.buffer
    IN  IF acc.fault # NoFault
        THEN [st EXCEPT !.fault = acc.fault, !.reads = @ \o acc.indices]
        ELSE IF behaviorAsserts(behavior) /\ ~nd
        THEN [st EXCEPT !.fault = "Invalid Behavior defined",
                        !.reads = @ \o acc.indices,
                        !.odTotals = Append(@, acc.total)]
        ELSE [buffer |-> setValue(copied, x, y, 3, outputScaleMax),
              odTotals |-> Append(st.odTotals, acc.total),
              retained |-> IF keep THEN st.retained \cup {j} ELSE st.retained,
              reads |-> st.reads \o acc.indices
                        \o (IF keep THEN acc.indices ELSE <<>>),
              fault |-> NoFault]

\* the pixel loop, line 128: positions j .. width*height-1 in order, stopping
\* at a failed assertion
RECURSIVE pixelLoop(_, _, _, _, _, _, _, _)
pixelLoop(src, thr, behavior, w, nd, g, st, j) ==
    IF j >= src.width * src.height \/ st.fault # NoFault THEN st
    ELSE pixelLoop(src, thr, behavior, w, nd, g,
                   processPixel(src, thr, behavior, w, nd, g, st, j), j + 1)

\* the offsets past the end of the source that the loop can read
pastEnd(src) ==
    {i \in count(src)..(count(src) + src.width * src.height - 1) :
        \E px \in 0..(src.width * src.height - 1), ch \in 0..2 :
            i = elementIndex(src.order, px, ch, channels(src),
                             src.width * src.height)}

\* RawImage ODThresholdKernel::doProcessData(const RawImage &source)
doProcessData(src) ==
    /\ pc = "idle"
    /\ \E g \in [pastEnd(src) -> Intensities] :
       \E st \in {pixelLoop(src, m_odThreshVal, m_behavior, m_weightVals,
                            ndebug, g,
                            [buffer |-> newBuffer(src), odTotals |-> <<>>,
                             retained |-> {}, reads |-> <<>>,
                             fault |-> NoFault], 0)} :
         /\ source' = src
         /\ translate' = translateSourceToOutputChannels(src.model, channels(src))
         /\ denominator' = weightDenominator(m_weightVals)
         /\ buffer' = st.buffer
         /\ odTotals' = st.odTotals
         /\ retained' = st.retained
         /\ reads' = st.reads
         /\ fault' = st.fault
         /\ pc' = IF st.fault = NoFault THEN "returned" ELSE "aborted"
    /\ UNCHANGED <<config, updates, lastCall, ndebug, extraVars>>

\* line 248: the call is over, its locals are gone and the caller owns the result
endCall ==
    /\ pc = "returned"
    /\ pc' = "idle"
    /\ source' = NoImage
    /\ buffer' = NoImage
    /\ translate' = <<>>
    /\ denominator' = 0
    /\ odTotals' = <<>>
    /\ retained' = {}
    /\ reads' = <<>>
    /\ fault' = NoFault
    /\ UNCHANGED <<config, updates, lastCall, ndebug, extraVars>>

(* ------------------------------------------- the pixel loop, partitioned *)
\* The offsets of the buffer that the iteration for position j writes: the
\* copies of lines 226-228 / 233-235 when the pixel is retained, and the 4th
\* channel of line 186.
writeOffsets(src, thr, behavior, w, nd, g, j) ==
    LET acc == accumulate(src, w, nd, g,
                          translateSourceToOutputChannels(src.model, channels(src)),
                          j, 0,
                          [total |-> 0, indices |-> <<>>, fault |-> NoFault])
    IN  (IF retains(behavior, acc.total, weightDenominator(w), thr)
         THEN {acc.indices[n] : n \in 1..Len(acc.indices)}
         ELSE {})
        \cup {elementIndex(src.order, j, 3, numOutputChannels,
                           src.width * src.height)}

\* lines 86-122 of doProcessData: everything before the pixel loop
beginLoop(src) ==
    /\ pc = "idle"
    /\ pc' = "looping"
    /\ source' = src
    /\ translate' = translateSourceToOutputChannels(src.model, channels(src))
    /\ denominator' = weightDenominator(m_weightVals)
    /\ buffer' = newBuffer(src)
    /\ odTotals' = <<>>
    /\ retained' = {}
    /\ reads' = <<>>
    /\ fault' = NoFault
    /\ todo' = 0..(src.width * src.height - 1)
    /\ UNCHANGED <<config, updates, lastCall, ndebug, pluginVars>>

\* lines 128-187: the iteration for position j, run by whichever worker holds
\* j, at any time relative to the other positions; line 247 after the last one
iteration(j) ==
    /\ pc = "looping"
    /\ j \in todo
    /\ \E g \in [pastEnd(source) -> Intensities] :
       \E st \in {processPixel(source, m_odThreshVal, m_behavior, m_weightVals,
                               ndebug, g,
                               [buffer |-> buffer, odTotals |-> odTotals,
                                retained |-> retained, reads |-> reads,
                                fault |-> fault], j)} :
         /\ buffer' = st.buffer
         /\ odTotals' = st.odTotals
         /\ retained' = st.retained
         /\ reads' = st.reads
         /\ fault' = st.fault
         /\ pc' = IF st.fault # NoFault THEN "aborted"
                  ELSE IF todo = {j} THEN "returned"
                  ELSE "looping"
    /\ todo' = todo \ {j}
    /\ UNCHANGED <<config, updates, lastCall, ndebug, source, translate,
                   denominator, pluginVars>>

(* ------------------------------------------------------------- the plugin *)
MaxRuns == 2
MaxChanged == 2

Null == [built |-> 0, constrained |-> FALSE]
NoRegion == "none"

\* the values the user interface can give each bound parameter; the threshold
\* is in hundredths of an OD unit, m_retainment and m_thresholdType are the
\* index of an option read as an int
ParamValues ==
    [m_displayArea     |-> {0},
     m_regionToProcess |-> {NoRegion, "roi"},
     m_threshold       |-> {0, 20},
     m_retainment      |-> 0..3,
     m_thresholdType   |-> {0},
     m_RWeight         |-> {1},
     m_GWeight         |-> {1},
     m_BWeight         |-> {1}]

ParamNames == DOMAIN ParamValues

\* the values init() binds
initialParams ==
    [m_displayArea     |-> 0,
     m_regionToProcess |-> NoRegion,
     m_threshold       |-> 20,
     m_retainment      |-> 1,
     m_thresholdType   |-> 0,
     m_RWeight         |-> 1,
     m_GWeight         |-> 1,
     m_BWeight         |-> 1]

NoRun == [display_changed |-> FALSE, pipeline_changed |-> FALSE,
          updated |-> FALSE, composed |-> FALSE, stopped |-> FALSE,
          built |-> Null, quiet |-> FALSE, afterAbort |-> FALSE]

\* the Behavior that buildPipeline derives from the retainment option index
behaviorVal_cast(retainmentOptionNum) ==
    retainmentOptionNum

behaviorVal(retainmentOptionNum) ==
    IF retainmentOptionNum = RETAIN_LOWER_OD THEN RETAIN_LOWER_OD
    ELSE IF retainmentOptionNum = RETAIN_HIGHER_OD THEN RETAIN_HIGHER_OD
    ELSE NO_ACTION

\* the condition under which buildPipeline builds
doBuild_ignoresBlueWeight(flags, factory) ==
    \/ "m_regionToProcess" \in flags
    \/ "m_threshold" \in flags
    \/ "m_displayArea" \in flags
    \/ "m_retainment" \in flags
    \/ "m_thresholdType" \in flags
    \/ "m_RWeight" \in flags
    \/ "m_GWeight" \in flags
    \/ factory = Null

doBuild(flags, factory) ==
    \/ "m_regionToProcess" \in flags
    \/ "m_threshold" \in flags
    \/ "m_displayArea" \in flags
    \/ "m_retainment" \in flags
    \/ "m_thresholdType" \in flags
    \/ "m_RWeight" \in flags
    \/ "m_GWeight" \in flags
    \/ "m_BWeight" \in flags
    \/ factory = Null

\* buildPipeline in call n of run(): its return value, the factory it leaves
\* and the kernel it constructs (threshold in tenths of an OD unit)
buildPipeline(n) ==
    IF doBuild(changed, m_ODThreshold_factory)
    THEN [pipeline_changed |-> TRUE,
          factory |-> [built |-> n,
                       constrained |-> params.m_regionToProcess # NoRegion],
          kernel |-> <<params.m_threshold \div 10,
                       behaviorVal(params.m_retainment),
                       <<params.m_RWeight, params.m_GWeight,
                         params.m_BWeight>> >>]
    ELSE [pipeline_changed |-> FALSE,
          factory |-> m_ODThreshold_factory,
          kernel |-> <<m_odThreshVal, m_behavior, m_weightVals>>]

\* the factory that run() leaves, given the second answer of askedToStop()
afterStop_keepsFactory(factory, stop) ==
    factory

afterStop(factory, stop) ==
    IF stop THEN Null ELSE factory

\* run(): stopDuring and stopAtEnd are the two answers of askedToStop()
run(stopDuring, stopAtEnd) ==
    /\ pc = "idle"
    /\ runs < MaxRuns
    /\ runs' = runs + 1
    /\ \E b \in {buildPipeline(runs + 1)} :
         /\ m_odThreshVal' = b.kernel[1]
         /\ m_behavior' = b.kernel[2]
         /\ m_weightVals' = b.kernel[3]
         /\ m_ODThreshold_factory' = afterStop(b.factory, stopAtEnd)
         /\ lastRun' = [display_changed |-> "m_displayArea" \in changed,
                        pipeline_changed |-> b.pipeline_changed,
                        updated |-> \/ "m_displayArea" \in changed
                                    \/ b.pipeline_changed,
                        composed |-> /\ \/ "m_displayArea" \in changed
                                        \/ b.pipeline_changed
                                     /\ ~stopDuring,
                        stopped |-> stopAtEnd,
                        built |-> b.factory,
                        quiet |-> changed = {},
                        afterAbort |-> lastRun.stopped]
    /\ UNCHANGED <<updates, lastCall, ndebug, callVars, todo, params, changed>>

\* the user gives parameter p the value v
userEdit(p, v) ==
    /\ pc = "idle"
    /\ params[p] # v \/ Cardinality(ParamValues[p]) = 1
    /\ Cardinality(changed \cup {p}) <= MaxChanged
    /\ params' = [params EXCEPT ![p] = v]
    /\ changed' = changed \cup {p}
    /\ UNCHANGED <<config, updates, lastCall, ndebug, callVars, todo,
                   m_ODThreshold_factory, runs, lastRun>>

\* the host takes note of the changes
clearChanged ==
    /\ pc = "idle"
    /\ changed # {}
    /\ changed' = {}
    /\ UNCHANGED <<config, updates, lastCall, ndebug, callVars, todo, params,
                   m_ODThreshold_factory, runs, lastRun>>

(* ----------------------------------------------------------------- setters *)
\* lines 63-68
setODThreshold(v) ==
    /\ pc = "idle"
    /\ lastCall' = [op |-> "setODThreshold", arg |-> v]
    /\ IF m_odThreshVal # v
       THEN /\ updates < MaxUpdates
            /\ m_odThreshVal' = v
            /\ updates' = updates + 1
       ELSE UNCHANGED <<m_odThreshVal, updates>>
    /\ UNCHANGED <<m_behavior, m_weightVals, ndebug, callVars, extraVars>>

\* setBehavior without the comparison: update() on every call
setBehavior_alwaysUpdate(t) ==
    /\ pc = "idle"
    /\ lastCall' = [op |-> "setBehavior", arg |-> t]
    /\ updates < MaxUpdates
    /\ m_behavior' = t
    /\ updates' = updates + 1
    /\ UNCHANGED <<m_odThreshVal, m_weightVals, ndebug, callVars, extraVars>>

\* lines 70-75
setBehavior(t) ==
    /\ pc = "idle"
    /\ lastCall' = [op |-> "setBehavior", arg |-> t]
    /\ IF t # m_behavior
       THEN /\ updates < MaxUpdates
            /\ m_behavior' = t
            /\ updates' = updates + 1
       ELSE UNCHANGED <<m_behavior, updates>>
    /\ UNCHANGED <<m_odThreshVal, m_weightVals, ndebug, callVars, extraVars>>

\* lines 77-82
setWeights(w) ==
    /\ pc = "idle"
    /\ lastCall' = [op |-> "setWeights", arg |-> w]
    /\ IF w # m_weightVals
       THEN /\ updates < MaxUpdates
            /\ m_weightVals' = w
            /\ updates' = updates + 1
       ELSE UNCHANGED <<m_weightVals, updates>>
    /\ UNCHANGED <<m_odThreshVal, m_behavior, ndebug, callVars, extraVars>>

(* ------------------------------------------------------------ specifications *)
\* lines 53-58: a kernel constructed with any threshold, behavior and weights
Init ==
    /\ m_odThreshVal \in Thresholds
    /\ m_behavior \in Behaviors
    /\ m_weightVals \in WeightTriples
    /\ updates = 0
    /\ lastCall = [op |-> "constructor", arg |-> 0]
    /\ ndebug \in BOOLEAN
    /\ pc = "idle"
    /\ source = NoImage
    /\ buffer = NoImage
    /\ translate = <<>>
    /\ denominator = 0
    /\ odTotals = <<>>
    /\ retained = {}
    /\ reads = <<>>
    /\ fault = NoFault
    /\ todo = {}
    /\ params = initialParams
    /\ changed = {}
    /\ m_ODThreshold_factory = Null
    /\ runs = 0
    /\ lastRun = NoRun

\* Every configuration the setters can reach is an initial state, so the
\* calls of doProcessData under Spec cover the calls after any setter sequence;
\* the setters themselves are followed under SpecSetters.
Next ==
    \/ pc = "idle" /\ \E src \in Sources : doProcessData(src)
    \/ endCall

Spec == Init /\ [][Next]_vars

NextSetters ==
    \/ \E v \in Thresholds : setODThreshold(v)
    \/ \E t \in Behaviors : setBehavior(t)
    \/ \E w \in WeightTriples : setWeights(w)

SpecSetters == Init /\ [][NextSetters]_vars

\* doProcessData with its pixel positions handed to workers in any order
NextWorkers ==
    \/ pc = "idle" /\ \E src \in Sources : beginLoop(src)
    \/ \E j \in todo : iteration(j)
    \/ endCall

SpecWorkers == Init /\ [][NextWorkers]_vars

\* the plugin between the user, who edits parameters, and the host, which
\* calls run() and asks it to stop
NextPlugin ==
    \/ \E stopDuring \in BOOLEAN, stopAtEnd \in BOOLEAN :
           run(stopDuring, stopAtEnd)
    \/ \E p \in ParamNames : \E v \in ParamValues[p] : userEdit(p, v)
    \/ clearChanged

\* no kernel exists before the first run(): its fields start as one value
InitPlugin ==
    /\ Init
    /\ ndebug
    /\ m_odThreshVal = 0
    /\ m_behavior = RETAIN_LOWER_OD
    /\ m_weightVals = <<0, 0, 0>>

SpecPlugin == InitPlugin /\ [][NextPlugin]_vars

(* ============================================================== claims *)
\* the pixel positions of the last source
Pixels == 0..(source.width * source.height - 1)

\* channel c of pixel p of an image, whatever its pixel order
valueAt(img, p, c) ==
    img.data[elementIndex(img.order, p, c, img.nch, img.width * img.height)]

\* every channel the mapping names is a channel of the source
MappingInRange == \A c \in 1..3 : translate[c] < source.nch

\* the source channel whose value the output channel c of a retained pixel is
\* to hold: channel c, or channel 0 of a grayscale or one-channel source
ColourChannel(c) ==
    IF source.model = "Grayscale" \/ source.nch = 1 THEN 0 ELSE c

(* C1: after doProcessData, every pixel that satisfied the retention       *)
(* predicate has its three source channel values (the grayscale value      *)
(* three times for a grayscale or one-channel source) in the first three   *)
(* output channels and the maximum channel value in the 4th.               *)
C1_RetainedPixelsCopied ==
    (pc = "returned" /\ MappingInRange) =>
        \A p \in retained :
            /\ \A c \in 0..2 :
                   valueAt(buffer, p, c) = valueAt(source, p, ColourChannel(c))
            /\ valueAt(buffer, p, 3) = outputScaleMax

ODMinusThreshold(p) ==
    IF denominator > 0
    THEN odTotals[p + 1] - m_odThreshVal * denominator
    ELSE m_odThreshVal * denominator - odTotals[p + 1]

DenominatorRule ==
    /\ denominator # 0
    /\ weightSum(m_weightVals) = 0 => denominator = 1
    /\ weightSum(m_weightVals) # 0 => denominator = weightSum(m_weightVals)

C7_SettersCompareAndNotify ==
    [][/\ lastCall'.op = "setODThreshold" =>
            /\ m_odThreshVal' = lastCall'.arg
            /\ UNCHANGED <<m_behavior, m_weightVals>>
            /\ updates' = updates + (IF lastCall'.arg # m_odThreshVal THEN 1 ELSE 0)
       /\ lastCall'.op = "setBehavior" =>
            /\ m_behavior' = lastCall'.arg
            /\ UNCHANGED <<m_odThreshVal, m_weightVals>>
            /\ updates' = updates + (IF lastCall'.arg # m_behavior THEN 1 ELSE 0)
       /\ lastCall'.op = "setWeights" =>
            /\ m_weightVals' = lastCall'.arg
            /\ UNCHANGED <<m_odThreshVal, m_behavior>>
            /\ updates' = updates + (IF lastCall'.arg # m_weightVals THEN 1 ELSE 0)
      ]_vars

C7_Witness ==
    /\ lastCall.op = "setBehavior"
    /\ m_behavior = lastCall.arg
    /\ updates = 1

\* the combined-OD numerator of pixel p under the channel mapping m
TotalUnder(m, p) ==
    m_weightVals[1] * LookupRGBtoOD(valueAt(source, p, m[1]))
    + m_weightVals[2] * LookupRGBtoOD(valueAt(source, p, m[2]))
    + m_weightVals[3] * LookupRGBtoOD(valueAt(source, p, m[3]))

\* doProcessData used the mapping m: it is the mapping of the call, and the
\* weighted sums of the pixels are those of the channels m names
UsesMapping(m) ==
    /\ translate = m
    /\ (pc = "returned" /\ \A c \in 1..3 : m[c] < source.nch) =>
           \A p \in Pixels : odTotals[p + 1] = TotalUnder(m, p)

(* C8 as claimed: the mapping is {0,0,0} for a grayscale or one-channel    *)
(* source and {0,1,2} for every other source, BGR included.                *)
C8_NoReordering ==
    pc # "idle" =>
        UsesMapping(IF source.model = "Grayscale" \/ source.nch = 1
                    THEN <<0, 0, 0>> ELSE <<0, 1, 2>>)

(* C8 as amended: the mapping is {0,0,0} for a grayscale or one-channel    *)
(* source, {2,1,0} for any other BGR source and {0,1,2} for the rest.      *)
C8_ReversedForBGR ==
    pc # "idle" =>
        UsesMapping(IF source.model = "Grayscale" \/ source.nch = 1
                    THEN <<0, 0, 0>>
                    ELSE IF source.model = "BGR" THEN <<2, 1, 0>>
                    ELSE <<0, 1, 2>>)

C8_Witness ==
    /\ pc = "returned"
    /\ source.model = "BGR"
    /\ translate = <<2, 1, 0>>
    /\ m_weightVals = <<1, -1, 0>>
    /\ \E p \in Pixels :
           /\ valueAt(source, p, 0) # valueAt(source, p, 2)
           /\ odTotals[p + 1] = TotalUnder(<<2, 1, 0>>, p)
           /\ odTotals[p + 1] # TotalUnder(<<0, 1, 2>>, p)

\* the same logical image in the other pixel order
otherOrder(order) == IF order = "Interleaved" THEN "Planar" ELSE "Interleaved"
reencoded(img) ==
    LET o == otherOrder(img.order)
        np == img.width * img.height
    IN  [img EXCEPT
           !.order = o,
           !.data = [i \in DOMAIN img.data |->
                        valueAt(img,
                                IF o = "Interleaved" THEN i \div img.nch ELSE i % np,
                                channelAt(o, i, img.nch, np))]]

\* doProcessData on the last source re-encoded, with the same configuration
ReencodedRun ==
    pixelLoop(reencoded(source), m_odThreshVal, m_behavior, m_weightVals,
              ndebug, <<>>,
              [buffer |-> newBuffer(reencoded(source)), odTotals |-> <<>>,
               retained |-> {}, reads |-> <<>>, fault |-> NoFault], 0)

C10_OutOfRangeAborts ==
    (pc # "idle" /\ ~MappingInRange) =>
        /\ pc = "aborted"
        /\ fault = "Out of range index value"
        /\ Len(reads) < 3

\* the sequential doProcessData on the last source
SequentialRun ==
    pixelLoop(source, m_odThreshVal, m_behavior, m_weightVals, ndebug, <<>>,
              [buffer |-> newBuffer(source), odTotals |-> <<>>,
               retained |-> {}, reads |-> <<>>, fault |-> NoFault], 0)

IsRun == runs' = runs + 1

(* C12: the ordinals of the retention modes are RETAIN_LOWER_OD = 0,       *)
(* RETAIN_HIGHER_OD = 1 and NO_ACTION = 2; a kernel that buildPipeline     *)
(* constructs gets RETAIN_LOWER_OD for option index 0, RETAIN_HIGHER_OD    *)
(* for index 1 and NO_ACTION for every other index, and so never a         *)
(* behavior outside the three.                                             *)
C12_RetainmentMapping ==
    [][(IsRun /\ lastRun'.pipeline_changed) =>
          /\ RETAIN_LOWER_OD = 0 /\ RETAIN_HIGHER_OD = 1 /\ NO_ACTION = 2
          /\ params.m_retainment = 0 => m_behavior' = RETAIN_LOWER_OD
          /\ params.m_retainment = 1 => m_behavior' = RETAIN_HIGHER_OD
          /\ params.m_retainment \notin {0, 1} => m_behavior' = NO_ACTION
          /\ m_behavior' \in {RETAIN_LOWER_OD, RETAIN_HIGHER_OD, NO_ACTION}]_vars

\* a kernel was built from an option index that names no option: only a
\* build gives the kernel NO_ACTION
C12_Witness ==
    /\ lastRun.pipeline_changed
    /\ params.m_retainment = 3
    /\ m_behavior = NO_ACTION

\* the parameters that the claim lists
BoundParameters ==
    {"m_regionToProcess", "m_threshold", "m_displayArea", "m_retainment",
     "m_thresholdType", "m_RWeight", "m_GWeight", "m_BWeight"}

(* C13: in every call, buildPipeline constructs a new kernel and cached    *)
(* factory and returns true exactly when one of the bound parameters       *)
(* reports isChanged or the factory is null; otherwise it returns false    *)
(* and leaves the factory (and its kernel) as it was. run() calls          *)
(* m_result.update only when the display area changed or the pipeline was  *)
(* rebuilt.                                                                *)
C13_RebuildExactlyOnChange ==
    [][IsRun =>
          /\ lastRun'.pipeline_changed <=>
                 \/ \E p \in BoundParameters : p \in changed
                 \/ m_ODThreshold_factory = Null
          /\ lastRun'.pipeline_changed =>
                 /\ lastRun'.built # Null
                 /\ lastRun'.built # m_ODThreshold_factory
                 /\ lastRun'.built.built = runs'
                 /\ m_odThreshVal' = params.m_threshold \div 10
                 /\ m_weightVals' = <<params.m_RWeight, params.m_GWeight,
                                      params.m_BWeight>>
          /\ ~lastRun'.pipeline_changed =>
                 /\ lastRun'.built = m_ODThreshold_factory
                 /\ UNCHANGED config
          /\ lastRun'.updated =>
                 \/ "m_displayArea" \in changed
                 \/ lastRun'.pipeline_changed]_vars

\* a second run with nothing changed: no build, no update, the factory of
\* the first run kept
C13_Witness ==
    /\ runs = 2
    /\ lastRun.quiet
    /\ ~lastRun.pipeline_changed
    /\ ~lastRun.updated
    /\ m_ODThreshold_factory # Null
    /\ m_ODThreshold_factory.built = 1

(* C14: a run() that ends with askedToStop() true leaves the factory null, *)
(* and the run() after it rebuilds the pipeline and calls m_result.update  *)
(* even when no parameter and no display area has changed.                 *)
C14_RunAgainAfterAbort ==
    [][IsRun =>
          /\ lastRun'.stopped => m_ODThreshold_factory' = Null
          /\ (runs > 0 /\ lastRun.stopped) =>
                 /\ m_ODThreshold_factory = Null
                 /\ lastRun'.pipeline_changed
                 /\ lastRun'.updated]_vars

\* the run after an aborted run, with nothing changed, rebuilt and updated
C14_Witness ==
    /\ runs >= 2
    /\ lastRun.afterAbort
    /\ lastRun.quiet
    /\ ~lastRun.display_changed
    /\ lastRun.pipeline_changed
    /\ lastRun.updated

====
